---- MODULE Spec2Model ----
(***************************************************************************)
(* A model of table_generator.py: the schema builder and condition parser  *)
(* of main, the default path of the correct-rows file, and the row loop of *)
(* generate_table with its two CSV writers.                                *)
(*                                                                         *)
(* Python strings are sequences of one-character strings, so that split,   *)
(* strip, stem and suffix are computed character by character.  An         *)
(* optional value is None (the empty sequence) or Some(x) (a one-element   *)
(* sequence).  A Python value held in a row is [int |-> n] or [str |-> s]; *)
(* csv.writer writes its text, str(value).                                 *)
(***************************************************************************)
EXTENDS Integers, Sequences, FiniteSets, TLC

VARIABLES
    args,               \* the arguments of main (never assigned after the call)
    pc,                 \* the position of the single thread of control
    error,              \* the ValueError that ended the run, "" when none
    tokens,             \* the tokens of columns / conditions still to be read
    column_list,        \* main: column_list
    column_types,       \* main: column_types (name -> type)
    i,                  \* main: the index of the for loop at line 132
    col_name,           \* main: col_name of the while loop at line 134
    condition_values,   \* main: condition_values (name -> Python value)
    out_file,           \* main: out_file after Path(out_file)
    out_file_correct,   \* main: out_file_correct as passed to generate_table
    main_file,          \* the records written through main_writer
    correct_file,       \* the records written through correct_writer
    had_correct_rows,   \* generate_table: had_correct_rows
    n_done,             \* generate_table: iterations of the loop at line 69 done
    row,                \* generate_table: row
    kv_call,            \* a call of read_key_value: its arguments
    kv_result           \* what that call returned or raised, None before it

vars == <<args, pc, error, tokens, column_list, column_types, i, col_name,
          condition_values, out_file, out_file_correct, main_file,
          correct_file, had_correct_rows, n_done, row, kv_call, kv_result>>

-----------------------------------------------------------------------------
(* Optional values and strings *)

None == <<>>
Some(x) == <<x>>

\* Python's str.strip() removes these (the whitespace the inputs here use).
Whitespace == {" ", "\t"}

Contains(s, c) == \E j \in 1..Len(s) : s[j] = c

\* s.find(c) counted from 1; 0 when c does not occur.
Find(s, c) ==
    IF Contains(s, c) THEN CHOOSE j \in 1..Len(s) : s[j] = c /\ \A m \in 1..(j - 1) : s[m] # c
    ELSE 0

\* s.rfind(c) counted from 1; 0 when c does not occur.
RFind(s, c) ==
    IF Contains(s, c) THEN CHOOSE j \in 1..Len(s) : s[j] = c /\ \A m \in (j + 1)..Len(s) : s[m] # c
    ELSE 0

RECURSIVE LStrip(_)
LStrip(s) == IF s # <<>> /\ Head(s) \in Whitespace THEN LStrip(Tail(s)) ELSE s

RECURSIVE RStrip(_)
RStrip(s) ==
    IF s # <<>> /\ s[Len(s)] \in Whitespace THEN RStrip(SubSeq(s, 1, Len(s) - 1)) ELSE s

\* str.strip()
Strip(s) == RStrip(LStrip(s))

\* str.split(delimiter) with no maxsplit: every occurrence splits, and a
\* string without the delimiter (the empty string too) is one part.
RECURSIVE Split(_, _)
Split(s, delimiter) ==
    IF ~Contains(s, delimiter) THEN <<s>>
    ELSE LET j == Find(s, delimiter)
         IN  <<SubSeq(s, 1, j - 1)>> \o Split(SubSeq(s, j + 1, Len(s)), delimiter)

\* The decimal digits of a natural number.
Digit(d) == CASE d = 0 -> "0" [] d = 1 -> "1" [] d = 2 -> "2" [] d = 3 -> "3"
              [] d = 4 -> "4" [] d = 5 -> "5" [] d = 6 -> "6" [] d = 7 -> "7"
              [] d = 8 -> "8" [] d = 9 -> "9"

RECURSIVE NatToStr(_)
NatToStr(m) == IF m < 10 THEN <<Digit(m)>> ELSE NatToStr(m \div 10) \o <<Digit(m % 10)>>

\* str(int), as an f-string and csv.writer format an int
IntToStr(m) == IF m < 0 THEN <<"-">> \o NatToStr(0 - m) ELSE NatToStr(m)

-----------------------------------------------------------------------------
(* read_key_value *)

\* key, value = encoded.split(delimiter) unpacks exactly two parts; any other
\* number of parts raises ValueError (too many values to unpack).
ReadKeyValue(encoded, delimiter, default_value) ==
    IF Contains(encoded, delimiter)
    THEN LET parts == Split(encoded, delimiter)
         IN  IF Len(parts) # 2
             THEN [raised |-> TRUE, key |-> <<>>, value |-> None]
             ELSE [raised |-> FALSE,
                   key    |-> Strip(parts[1]),
                   value  |-> Some(Strip(parts[2]))]
    ELSE [raised |-> FALSE, key |-> Strip(encoded), value |-> default_value]

-----------------------------------------------------------------------------
(* Column types and random values *)

HEX_CHARS == <<"A", "B", "C", "D", "E", "F">>
STR_CHARS == <<"a", "b", "c", "d", "e", "f", "g", "h", "i", "j", "k", "l", "m",
               "n", "o", "p", "q", "r", "s", "t", "u", "v", "w", "x", "y", "z",
               " ">>
HEX_LEN == 8

\* class ColumnType: the members, and the lookup ColumnType(value)
ColumnType == {"INT", "STR", "HEX"}
ColumnTypeValue(t) == CASE t = "INT" -> <<"i", "n", "t">>
                        [] t = "STR" -> <<"s", "t", "r">>
                        [] t = "HEX" -> <<"h", "e", "x">>
IsColumnTypeValue(s) == \E t \in ColumnType : ColumnTypeValue(t) = s
ColumnTypeOf(s) == CHOOSE t \in ColumnType : ColumnTypeValue(t) = s

\* random_type(): any member
RandomType == ColumnType

\* random.randint(a, b) returns any integer of a..b.  The draws explored are
\* the two ends of the range.
Randint(a, b) == {a, b}

\* random.choices(chars, k=k): a string of k characters of chars.  The draws
\* explored repeat one character, the first or the last of chars.
Choices(chars, k) == {[j \in 1..k |-> c] : c \in {chars[1], chars[Len(chars)]}}

\* random.random() < condition_freq, both in tenths: the draws explored are
\* 0.0 and 0.9.
RandomDraws == {0, 9}

\* random_value with the upper end of the INT range and the HEX length one off
RandomValue_off_by_one(col_type) ==
    CASE col_type = "INT" -> {[int |-> v] : v \in Randint(-100, 101)}
      [] col_type = "STR" ->
            UNION {{[str |-> s] : s \in Choices(STR_CHARS, length)} : length \in Randint(0, 25)}
      [] col_type = "HEX" -> {[str |-> s] : s \in Choices(HEX_CHARS, HEX_LEN + 1)}

RandomValue(col_type) ==
    CASE col_type = "INT" -> {[int |-> v] : v \in Randint(-100, 100)}
      [] col_type = "STR" ->
            UNION {{[str |-> s] : s \in Choices(STR_CHARS, length)} : length \in Randint(0, 25)}
      [] col_type = "HEX" -> {[str |-> s] : s \in Choices(HEX_CHARS, HEX_LEN)}

\* str(value), the text csv.writer writes for a field
Text(value) == IF "int" \in DOMAIN value THEN IntToStr(value.int) ELSE value.str

-----------------------------------------------------------------------------
(* generate_row *)

\* The rows generate_row can return: a condition column holds its condition
\* value, every other column a fresh random value of its type.
\* condition_values is a function; generate_row's "or {}" makes None the
\* empty one.
RECURSIVE GenerateRowUpTo(_, _, _, _)
GenerateRowUpTo(k, columns, types, conditions) ==
    IF k = 0 THEN {<<>>}
    ELSE LET name == columns[k]
             cell == IF name \in DOMAIN conditions THEN {conditions[name]}
                     ELSE RandomValue(types[name])
         IN  {Append(r, v) : r \in GenerateRowUpTo(k - 1, columns, types, conditions),
                             v \in cell}

\* generate_row that never looks at condition_values
GenerateRow_no_conditions(columns, types, conditions) ==
    GenerateRowUpTo(Len(columns), columns, types, <<>>)

GenerateRow(columns, types, conditions) ==
    GenerateRowUpTo(Len(columns), columns, types, conditions)

\* csv.writer.writerow(row): the record of the fields' texts, as a CSV
\* reader gives it back (the quoting of a field is not modelled)
CsvRecord(r) == [j \in 1..Len(r) |-> Text(r[j])]

-----------------------------------------------------------------------------
(* pathlib: Path(s), .name, .stem, .suffix, .parent, / *)

RECURSIVE SelectParts(_)
SelectParts(parts) ==
    IF parts = <<>> THEN <<>>
    ELSE IF Head(parts) = <<>> \/ Head(parts) = <<".">> THEN SelectParts(Tail(parts))
         ELSE <<Head(parts)>> \o SelectParts(Tail(parts))

\* PurePosixPath(s): the root and the components, empty and "." ones dropped
PathRoot(s) ==
    IF Len(s) >= 1 /\ s[1] = "/"
    THEN IF Len(s) >= 2 /\ s[2] = "/" /\ ~(Len(s) >= 3 /\ s[3] = "/")
         THEN <<"/", "/">> ELSE <<"/">>
    ELSE <<>>

Path(s) == [root |-> PathRoot(s), parts |-> SelectParts(Split(s, "/"))]

PathName(p) == IF p.parts = <<>> THEN <<>> ELSE p.parts[Len(p.parts)]

\* .suffix: from the last dot of the name on, the dot included, when that
\* dot is neither the first nor the last character
PathSuffix(p) ==
    LET name == PathName(p)
        j == RFind(name, ".")
    IN  IF 1 < j /\ j < Len(name) THEN SubSeq(name, j, Len(name)) ELSE <<>>

PathStem(p) ==
    LET name == PathName(p)
        j == RFind(name, ".")
    IN  IF 1 < j /\ j < Len(name) THEN SubSeq(name, 1, j - 1) ELSE name

PathParent(p) ==
    IF p.parts = <<>> THEN p
    ELSE [root |-> p.root, parts |-> SubSeq(p.parts, 1, Len(p.parts) - 1)]

\* p / s
PathJoin(p, s) ==
    LET q == Path(s)
    IN  IF q.root # <<>> THEN q ELSE [root |-> p.root, parts |-> p.parts \o q.parts]

S_correct == <<"_", "c", "o", "r", "r", "e", "c", "t", ".">>

\* out_file.parent / f'{out_file.stem}_correct.{out_file.suffix}'
DefaultCorrectPath(p) == PathJoin(PathParent(p), PathStem(p) \o S_correct \o PathSuffix(p))

-----------------------------------------------------------------------------
(* main: the schema builder, lines 107-137 *)

S_any == <<"a", "n", "y">>
S_column == <<"c", "o", "l", "u", "m", "n", "_">>

NoFile == [exists |-> FALSE, rows |-> <<>>]

Raise(message) ==
    /\ pc' = "error"
    /\ error' = message

\* main that opens both output files before it checks anything
MainStart_opens_files ==
    /\ pc = "main"
    /\ main_file' = [exists |-> TRUE, rows |-> <<>>]
    /\ correct_file' = [exists |-> TRUE, rows |-> <<>>]
    /\ IF args.columns = None /\ args.n_columns = None
       THEN /\ Raise("Must specify either columns or n_columns argument")
            /\ UNCHANGED <<tokens, column_list, column_types>>
       ELSE /\ column_list' = <<>>
            /\ column_types' = <<>>
            /\ error' = error
            /\ IF args.columns # None
               THEN tokens' = Split(args.columns[1], ",") /\ pc' = "columns"
               ELSE tokens' = <<>> /\ pc' = "n_columns"
    /\ UNCHANGED <<args, i, col_name, condition_values, out_file, out_file_correct,
                   had_correct_rows, n_done, row, kv_call, kv_result>>

\* Lines 107-115: the check of the two arguments, the empty schema, and the
\* split of columns.  random.seed is not modelled: every draw is any value.
MainStart ==
    /\ pc = "main"
    /\ IF args.columns = None /\ args.n_columns = None
       THEN /\ Raise("Must specify either columns or n_columns argument")
            /\ UNCHANGED <<tokens, column_list, column_types>>
       ELSE /\ column_list' = <<>>
            /\ column_types' = <<>>
            /\ error' = error
            /\ IF args.columns # None
               THEN tokens' = Split(args.columns[1], ",") /\ pc' = "columns"
               ELSE tokens' = <<>> /\ pc' = "n_columns"
    /\ UNCHANGED <<args, i, col_name, condition_values, out_file, out_file_correct,
                   main_file, correct_file, had_correct_rows, n_done, row,
                   kv_call, kv_result>>

\* Lines 116-127: one token of columns.
ReadColumn ==
    /\ pc = "columns"
    /\ LET kv == ReadKeyValue(Head(tokens), ":", Some(S_any))
       IN  IF kv.raised
           THEN /\ Raise("too many values to unpack")
                /\ UNCHANGED <<tokens, column_list, column_types>>
           ELSE IF kv.key = <<>>
           THEN /\ Raise("Column name cannot be an empty string")
                /\ UNCHANGED <<tokens, column_list, column_types>>
           ELSE IF kv.value[1] # S_any /\ ~IsColumnTypeValue(kv.value[1])
           THEN /\ Raise("is not a valid ColumnType")
                /\ UNCHANGED <<tokens, column_list, column_types>>
           ELSE IF kv.key \in DOMAIN column_types
           THEN /\ Raise("Column name is written twice")
                /\ UNCHANGED <<tokens, column_list, column_types>>
           ELSE /\ \E col_type \in (IF kv.value[1] = S_any THEN RandomType
                                    ELSE {ColumnTypeOf(kv.value[1])}) :
                      column_types' = (kv.key :> col_type) @@ column_types
                /\ column_list' = Append(column_list, kv.key)
                /\ tokens' = Tail(tokens)
                /\ pc' = IF Tail(tokens) = <<>> THEN "n_columns" ELSE "columns"
                /\ error' = error
    /\ UNCHANGED <<args, i, col_name, condition_values, out_file, out_file_correct,
                   main_file, correct_file, had_correct_rows, n_done, row,
                   kv_call, kv_result>>

\* Lines 128-132: n_columns against the number of columns read.
CheckNColumns ==
    /\ pc = "n_columns"
    /\ IF args.n_columns = None
       THEN pc' = "conditions" /\ UNCHANGED <<error, i>>
       ELSE IF Len(column_list) > args.n_columns[1]
       THEN Raise("Number of columns is set to n_columns, got more instead") /\ i' = i
       ELSE IF Len(column_list) < args.n_columns[1]
       THEN pc' = "for" /\ i' = Len(column_list) /\ error' = error
       ELSE pc' = "conditions" /\ UNCHANGED <<error, i>>
    /\ UNCHANGED <<args, tokens, column_list, column_types, col_name, condition_values,
                   out_file, out_file_correct, main_file, correct_file,
                   had_correct_rows, n_done, row, kv_call, kv_result>>

\* Lines 132-133: the next i of range(len(column_list), n_columns) and its name.
NameColumn ==
    /\ pc = "for"
    /\ IF i < args.n_columns[1]
       THEN col_name' = S_column \o IntToStr(i) /\ pc' = "while"
       ELSE col_name' = col_name /\ pc' = "conditions"
    /\ UNCHANGED <<args, error, tokens, column_list, column_types, i, condition_values,
                   out_file, out_file_correct, main_file, correct_file,
                   had_correct_rows, n_done, row, kv_call, kv_result>>

\* Lines 134-135: one iteration of the while loop.
AppendUnderscore ==
    /\ pc = "while"
    /\ col_name \in DOMAIN column_types
    /\ col_name' = Append(col_name, "_")
    /\ UNCHANGED <<args, pc, error, tokens, column_list, column_types, i,
                   condition_values, out_file, out_file_correct, main_file,
                   correct_file, had_correct_rows, n_done, row, kv_call, kv_result>>

\* The column added without the test of the while loop: under the name as it
\* is, taken or not
AddColumn_unchecked ==
    /\ pc = "while"
    /\ column_list' = Append(column_list, col_name)
    /\ \E col_type \in RandomType : column_types' = (col_name :> col_type) @@ column_types
    /\ i' = i + 1
    /\ pc' = "for"
    /\ UNCHANGED <<args, error, tokens, col_name, condition_values, out_file,
                   out_file_correct, main_file, correct_file, had_correct_rows,
                   n_done, row, kv_call, kv_result>>

\* Lines 134, 136-137: the while loop ends and the column is added.
AddColumn ==
    /\ pc = "while"
    /\ col_name \notin DOMAIN column_types
    /\ column_list' = Append(column_list, col_name)
    /\ \E col_type \in RandomType : column_types' = (col_name :> col_type) @@ column_types
    /\ i' = i + 1
    /\ pc' = "for"
    /\ UNCHANGED <<args, error, tokens, col_name, condition_values, out_file,
                   out_file_correct, main_file, correct_file, had_correct_rows,
                   n_done, row, kv_call, kv_result>>

-----------------------------------------------------------------------------
(* main: the condition parser, lines 138-147 *)

\* Lines 138-140
StartConditions ==
    /\ pc = "conditions"
    /\ condition_values' = <<>>
    /\ IF args.conditions # None
       THEN tokens' = Split(args.conditions[1], ",") /\ pc' = "cond"
       ELSE tokens' = <<>> /\ pc' = "path"
    /\ UNCHANGED <<args, error, column_list, column_types, i, col_name, out_file,
                   out_file_correct, main_file, correct_file, had_correct_rows,
                   n_done, row, kv_call, kv_result>>

\* Lines 140-147: one token of conditions.  A value given in the token is
\* kept as the string it is (line 146: no check against the column's type).
ReadCondition ==
    /\ pc = "cond"
    /\ LET kv == ReadKeyValue(Head(tokens), "=", None)
       IN  IF kv.raised
           THEN /\ Raise("too many values to unpack")
                /\ UNCHANGED <<tokens, condition_values>>
           ELSE IF kv.key \notin DOMAIN column_types
           THEN /\ Raise("Unknown column")
                /\ UNCHANGED <<tokens, condition_values>>
           ELSE /\ \E value \in (IF kv.value = None THEN RandomValue(column_types[kv.key])
                                 ELSE {[str |-> kv.value[1]]}) :
                      condition_values' = (kv.key :> value) @@ condition_values
                /\ tokens' = Tail(tokens)
                /\ pc' = IF Tail(tokens) = <<>> THEN "path" ELSE "cond"
                /\ error' = error
    /\ UNCHANGED <<args, column_list, column_types, i, col_name, out_file,
                   out_file_correct, main_file, correct_file, had_correct_rows,
                   n_done, row, kv_call, kv_result>>

\* Lines 149-153: the two paths.
ResolvePath ==
    /\ pc = "path"
    /\ out_file' = Path(args.out_file)
    /\ out_file_correct' = IF args.out_file_correct = None
                           THEN DefaultCorrectPath(Path(args.out_file))
                           ELSE Path(args.out_file_correct[1])
    /\ pc' = "open"
    /\ UNCHANGED <<args, error, tokens, column_list, column_types, i, col_name,
                   condition_values, main_file, correct_file, had_correct_rows,
                   n_done, row, kv_call, kv_result>>

-----------------------------------------------------------------------------
(* generate_table, lines 61-83 *)

\* Line 69: range(n_rows - 1 if guaranteed else n_rows)
LoopRows == IF args.guaranteed THEN args.n_rows - 1 ELSE args.n_rows

\* Line 70: random.random() < condition_freq
LoopRowIsCorrect(u) == u < args.condition_frequency

\* The final draw alone, without "or not had_correct_rows"
FinalRowIsCorrect_draw_only(u) == u < args.condition_frequency

\* Line 78: random.random() < condition_freq or not had_correct_rows
FinalRowIsCorrect(u) == u < args.condition_frequency \/ ~had_correct_rows

\* Line 63: both files are opened for writing, which creates or empties them.
OpenFiles ==
    /\ pc = "open"
    /\ main_file' = [exists |-> TRUE, rows |-> <<>>]
    /\ correct_file' = [exists |-> TRUE, rows |-> <<>>]
    /\ pc' = "header_main"
    /\ UNCHANGED <<args, error, tokens, column_list, column_types, i, col_name,
                   condition_values, out_file, out_file_correct, had_correct_rows,
                   n_done, row, kv_call, kv_result>>

\* Line 66
WriteHeaderMain ==
    /\ pc = "header_main"
    /\ main_file' = [main_file EXCEPT !.rows = Append(@, column_list)]
    /\ pc' = "header_correct"
    /\ UNCHANGED <<args, error, tokens, column_list, column_types, i, col_name,
                   condition_values, out_file, out_file_correct, correct_file,
                   had_correct_rows, n_done, row, kv_call, kv_result>>

\* Lines 67-68
WriteHeaderCorrect ==
    /\ pc = "header_correct"
    /\ correct_file' = [correct_file EXCEPT !.rows = Append(@, column_list)]
    /\ had_correct_rows' = FALSE
    /\ n_done' = 0
    /\ pc' = "loop"
    /\ UNCHANGED <<args, error, tokens, column_list, column_types, i, col_name,
                   condition_values, out_file, out_file_correct, main_file, row,
                   kv_call, kv_result>>

\* Lines 69-71 and 74-75: the loop's test, the draw and the row; after the
\* loop, line 77.
NextRow ==
    /\ pc = "loop"
    /\ IF n_done < LoopRows
       THEN \E u \in RandomDraws :
                IF LoopRowIsCorrect(u)
                THEN /\ row' \in GenerateRow(column_list, column_types, condition_values)
                     /\ pc' = "write_correct"
                ELSE /\ row' \in GenerateRow(column_list, column_types, <<>>)
                     /\ pc' = "write_main"
       ELSE /\ row' = row
            /\ pc' = IF args.guaranteed THEN "final" ELSE "done"
    /\ UNCHANGED <<args, error, tokens, column_list, column_types, i, col_name,
                   condition_values, out_file, out_file_correct, main_file,
                   correct_file, had_correct_rows, n_done, kv_call, kv_result>>

\* The write to the main file only for a row that is not a correct one: after
\* the write to the correct file the iteration ends.
WriteCorrect_main_in_else ==
    /\ pc = "write_correct"
    /\ correct_file' = [correct_file EXCEPT !.rows = Append(@, CsvRecord(row))]
    /\ had_correct_rows' = TRUE
    /\ n_done' = n_done + 1
    /\ pc' = "loop"
    /\ UNCHANGED <<args, error, tokens, column_list, column_types, i, col_name,
                   condition_values, out_file, out_file_correct, main_file,
                   row, kv_call, kv_result>>

\* Lines 72-73
WriteCorrect ==
    /\ pc = "write_correct"
    /\ correct_file' = [correct_file EXCEPT !.rows = Append(@, CsvRecord(row))]
    /\ had_correct_rows' = TRUE
    /\ pc' = "write_main"
    /\ UNCHANGED <<args, error, tokens, column_list, column_types, i, col_name,
                   condition_values, out_file, out_file_correct, main_file, n_done,
                   row, kv_call, kv_result>>

\* Line 76, and the end of the iteration
WriteMain ==
    /\ pc = "write_main"
    /\ main_file' = [main_file EXCEPT !.rows = Append(@, CsvRecord(row))]
    /\ n_done' = n_done + 1
    /\ pc' = "loop"
    /\ UNCHANGED <<args, error, tokens, column_list, column_types, i, col_name,
                   condition_values, out_file, out_file_correct, correct_file,
                   had_correct_rows, row, kv_call, kv_result>>

\* Lines 78-79 and 81-82
FinalRow ==
    /\ pc = "final"
    /\ \E u \in RandomDraws :
           IF FinalRowIsCorrect(u)
           THEN /\ row' \in GenerateRow(column_list, column_types, condition_values)
                /\ pc' = "final_write_correct"
           ELSE /\ row' \in GenerateRow(column_list, column_types, <<>>)
                /\ pc' = "final_write_main"
    /\ UNCHANGED <<args, error, tokens, column_list, column_types, i, col_name,
                   condition_values, out_file, out_file_correct, main_file,
                   correct_file, had_correct_rows, n_done, kv_call, kv_result>>

\* Line 80
FinalWriteCorrect ==
    /\ pc = "final_write_correct"
    /\ correct_file' = [correct_file EXCEPT !.rows = Append(@, CsvRecord(row))]
    /\ pc' = "final_write_main"
    /\ UNCHANGED <<args, error, tokens, column_list, column_types, i, col_name,
                   condition_values, out_file, out_file_correct, main_file,
                   had_correct_rows, n_done, row, kv_call, kv_result>>

\* Line 83, and the end of the with block: both files are closed.
FinalWriteMain ==
    /\ pc = "final_write_main"
    /\ main_file' = [main_file EXCEPT !.rows = Append(@, CsvRecord(row))]
    /\ pc' = "done"
    /\ UNCHANGED <<args, error, tokens, column_list, column_types, i, col_name,
                   condition_values, out_file, out_file_correct, correct_file,
                   had_correct_rows, n_done, row, kv_call, kv_result>>

-----------------------------------------------------------------------------
(* A call of read_key_value on its own *)

CallReadKeyValue ==
    /\ pc = "read_key_value"
    /\ kv_result' = Some(ReadKeyValue(kv_call.encoded, kv_call.delimiter,
                                      kv_call.default_value))
    /\ pc' = "returned"
    /\ UNCHANGED <<args, error, tokens, column_list, column_types, i, col_name,
                   condition_values, out_file, out_file_correct, main_file,
                   correct_file, had_correct_rows, n_done, row, kv_call>>

-----------------------------------------------------------------------------
(* The inputs explored *)

MaxRows == 3
MaxColumns == 3
MaxTokens == 2
MaxTokenLen == 3
MaxPathLen == 4

\* The strings of length at most k over the characters of chars
RECURSIVE StringsUpTo(_, _)
StringsUpTo(chars, k) ==
    IF k = 0 THEN {<<>>}
    ELSE LET shorter == StringsUpTo(chars, k - 1)
         IN  shorter \cup {Append(s, c) : s \in shorter, c \in chars}

\* The comma-separated lists of 1..k of the tokens of set
RECURSIVE ListsUpTo(_, _)
ListsUpTo(set, k) ==
    IF k = 1 THEN set
    ELSE LET shorter == ListsUpTo(set, k - 1)
         IN  shorter \cup {s \o <<",">> \o t : s \in shorter, t \in set}

Arguments(n_rows, out, out_correct, columns, n_columns, conditions, frequency, guaranteed) ==
    [n_rows : n_rows, out_file : out, out_file_correct : out_correct,
     columns : columns, n_columns : n_columns, conditions : conditions,
     condition_frequency : frequency, guaranteed : guaranteed]

S_out == <<"d", "/", "t", ".", "c", "s", "v">>

\* condition_frequency in tenths: 0.0, 0.5 and 1.0
Frequencies == {0, 5, 10}

\* The runs of the whole program: a few schemas and condition sets, every
\* row count up to MaxRows, both settings of guaranteed.
ProgramColumns ==
    {Some(<<"a", ":", "i", "n", "t", ",", "b", ":", "s", "t", "r">>),
     Some(<<"c", "o", "l", "u", "m", "n", "_", "1", ":", "h", "e", "x">>)}
ProgramConditions ==
    {None,
     Some(<<"a", "=", "x">>),
     Some(<<" ", "a", " ", ",", "b", " ", "=", " ", "7">>),
     Some(<<"c", "o", "l", "u", "m", "n", "_", "1">>)}

ProgramArgs ==
    Arguments(0..MaxRows, {S_out}, {None}, ProgramColumns, {None, Some(2)},
              ProgramConditions, Frequencies, BOOLEAN)

InitWith(arguments, position) ==
    /\ args \in arguments
    /\ pc = position
    /\ error = ""
    /\ tokens = <<>>
    /\ column_list = <<>>
    /\ column_types = <<>>
    /\ i = 0
    /\ col_name = <<>>
    /\ condition_values = <<>>
    /\ out_file = None
    /\ out_file_correct = None
    /\ main_file = NoFile
    /\ correct_file = NoFile
    /\ had_correct_rows = FALSE
    /\ n_done = 0
    /\ row = <<>>
    /\ kv_result = None

Init == InitWith(ProgramArgs, "main") /\ kv_call = None

\* The runs of the schema builder and the condition parser: every list of at
\* most MaxTokens of these column tokens, every n_columns up to MaxColumns.
ColumnTokens ==
    {<<"a">>,
     <<" ", "b", " ", ":", " ", "s", "t", "r", " ">>,
     <<"c", "o", "l", "u", "m", "n", "_", "2", ":", "i", "n", "t">>,
     <<"c", "o", "l", "u", "m", "n", "_", "2", "_", ":", "h", "e", "x">>,
     <<":", "i", "n", "t">>,
     <<"a", ":", "f", "o", "o">>,
     <<"a", ":", "i", "n", "t", ":", "x">>}
BuilderConditions ==
    {None,
     Some(<<"a">>),
     Some(<<" ", "c", "o", "l", "u", "m", "n", "_", "2", " ", "=", " ", "x", " ", ",", "a">>),
     Some(<<"a", "=", "b", "=", "c">>),
     Some(<<"z">>)}

BuilderArgs ==
    Arguments({1}, {S_out}, {None},
              {None} \cup {Some(s) : s \in ListsUpTo(ColumnTokens, MaxTokens)},
              {None} \cup {Some(k) : k \in 0..MaxColumns},
              BuilderConditions, {5}, {FALSE})

InitBuilder == InitWith(BuilderArgs, "main") /\ kv_call = None

\* The paths: out_file any string of at most MaxPathLen of these characters,
\* at line 149 of a run with n_columns=0 and no columns and no conditions.
PathArgs ==
    Arguments({0}, StringsUpTo({"d", ".", "/"}, MaxPathLen), {None}, {None}, {Some(0)},
              {None}, {5}, {FALSE})

InitPath == InitWith(PathArgs, "path") /\ kv_call = None

\* The calls of read_key_value: every string of at most MaxTokenLen of these
\* characters, with the delimiter and the default of either call in main.
KVCalls ==
    {[encoded |-> s, delimiter |-> d,
      default_value |-> IF d = ":" THEN Some(S_any) ELSE None] :
        s \in StringsUpTo({"a", " ", "=", ":"}, MaxTokenLen), d \in {":", "="}}

InitKV ==
    /\ InitWith(Arguments({0}, {S_out}, {None}, {None}, {Some(0)}, {None}, {5}, {FALSE}),
                "read_key_value")
    /\ kv_call \in KVCalls

Build ==
    \/ MainStart
    \/ ReadColumn
    \/ CheckNColumns
    \/ NameColumn
    \/ AppendUnderscore
    \/ AddColumn
    \/ StartConditions
    \/ ReadCondition
    \/ ResolvePath
    \/ OpenFiles
    \/ WriteHeaderMain
    \/ WriteHeaderCorrect

Next ==
    \/ Build
    \/ NextRow
    \/ WriteCorrect
    \/ WriteMain
    \/ FinalRow
    \/ FinalWriteCorrect
    \/ FinalWriteMain

Spec == Init /\ [][Next]_vars

\* main up to the first record of each file
SpecBuilder == InitBuilder /\ [][Build]_vars

\* The same, with the thread that is in the while loop of lines 134-135
\* taking its next step: nothing suspends the single thread of control.
FairSpecBuilder == SpecBuilder /\ WF_vars(AppendUnderscore) /\ WF_vars(AddColumn)

SpecKV == InitKV /\ [][CallReadKeyValue]_vars

SpecPath == InitPath /\ [][ResolvePath]_vars

-----------------------------------------------------------------------------
(* What the two files hold *)

\* The records after the header
DataRows(file) == IF Len(file.rows) >= 1 THEN Tail(file.rows) ELSE <<>>

ColumnIndex(name) == CHOOSE j \in 1..Len(column_list) : column_list[j] = name

\* A record whose field in every condition column is the condition's value
MatchesConditions(record) ==
    \A name \in DOMAIN condition_values :
        record[ColumnIndex(name)] = Text(condition_values[name])

RECURSIVE IsSubsequence(_, _)
IsSubsequence(s, t) ==
    IF s = <<>> THEN TRUE
    ELSE IF t = <<>> THEN FALSE
    ELSE IF Head(s) = Head(t) THEN IsSubsequence(Tail(s), Tail(t))
    ELSE IsSubsequence(s, Tail(t))

Chars(s) == {s[j] : j \in 1..Len(s)}

\* The texts of the integers of [-100, 100]
IntTexts == {IntToStr(v) : v \in -100..100}

\* The texts of the values of a column type
InDomain(col_type, text) ==
    CASE col_type = "INT" -> text \in IntTexts
      [] col_type = "STR" -> Len(text) <= 25 /\ Chars(text) \subseteq Chars(STR_CHARS)
      [] col_type = "HEX" -> Len(text) = HEX_LEN /\ Chars(text) \subseteq Chars(HEX_CHARS)

\* The columns that a token of the conditions argument gives a value for
GivenConditionValue(name) ==
    /\ args.conditions # None
    /\ \E token \in Chars(Split(args.conditions[1], ",")) :
           LET kv == ReadKeyValue(token, "=", None)
           IN  ~kv.raised /\ kv.key = name /\ kv.value # None

-----------------------------------------------------------------------------
(* The claims about generate_table, under Spec *)

\* C1: after generate_table the main output holds one header row and exactly
\* n_rows data rows, whatever n_rows >= 0, the frequency and guaranteed are.
C1_MainHasNRows ==
    pc = "done" => Len(main_file.rows) = 1 + args.n_rows

\* C2: with guaranteed set and n_rows >= 1 the correct-rows output has at
\* least one data row when generate_table is done, for every frequency
\* (0 too) and every sequence of draws.
C2_GuaranteedCorrectRow ==
    (pc = "done" /\ args.guaranteed /\ args.n_rows >= 1)
        => Len(DataRows(correct_file)) >= 1

C2_Witness ==
    /\ pc = "done"
    /\ args.guaranteed
    /\ args.n_rows = 2
    /\ args.condition_frequency = 0
    /\ Len(DataRows(correct_file)) = 1

\* C3: every data row of the main output that matches the conditions is a
\* data row of the correct-rows output.
C3_MatchingRowsAreCorrect ==
    pc = "done" =>
        \A j \in 1..Len(DataRows(main_file)) :
            MatchesConditions(DataRows(main_file)[j])
                => \E k \in 1..Len(DataRows(correct_file)) :
                       DataRows(correct_file)[k] = DataRows(main_file)[j]

\* C4 as stated: at every point the data rows of the correct-rows output are
\* a subsequence of the data rows of the main output.
C4_SubsequenceAtEveryPoint ==
    IsSubsequence(DataRows(correct_file), DataRows(main_file))

\* The row written to the correct file and not yet to the main file
PendingMainRow ==
    IF pc \in {"write_main", "final_write_main"} THEN <<CsvRecord(row)>> ELSE <<>>

\* C4 as amended: the data rows of the correct-rows output are a subsequence
\* of the data rows of the main output once each row's write to the main
\* file is done (between iterations and after generation); while a row is
\* written to the correct file and not yet to the main file, they are a
\* subsequence of the main output's data rows followed by that row.
C4_SubsequenceBetweenRows ==
    /\ IsSubsequence(DataRows(correct_file), DataRows(main_file) \o PendingMainRow)
    /\ pc \notin {"write_main", "final_write_main"}
           => IsSubsequence(DataRows(correct_file), DataRows(main_file))

C4_Witness ==
    /\ pc = "done"
    /\ Len(DataRows(main_file)) = 3
    /\ Len(DataRows(correct_file)) = 2
    /\ DataRows(main_file)[2] # DataRows(correct_file)[1]
    /\ DataRows(main_file)[2] # DataRows(correct_file)[2]

\* C5: every data row of the correct-rows output holds, in every condition
\* column, the one value resolved for that condition before the rows.
C5_CorrectRowsHoldConditionValues ==
    \A j \in 1..Len(DataRows(correct_file)) :
        \A name \in DOMAIN condition_values :
            DataRows(correct_file)[j][ColumnIndex(name)] = Text(condition_values[name])

C5_Witness ==
    /\ pc = "done"
    /\ Cardinality(DOMAIN condition_values) = 2
    /\ Len(DataRows(correct_file)) = 2
    /\ Len(DataRows(main_file)) = 2

\* C7 as stated: every value written to either file lies in the domain of
\* its column's type.
C7_EveryValueInDomain ==
    \A file \in {main_file, correct_file} :
        \A j \in 1..Len(DataRows(file)) :
            \A c \in 1..Len(column_list) :
                InDomain(column_types[column_list[c]], DataRows(file)[j][c])

\* C7 as amended: every value written to either file lies in the domain of
\* its column's type or is the value the conditions argument gives for that
\* column, which is written as given.
C7_ValueInDomainOrGiven ==
    \A file \in {main_file, correct_file} :
        \A j \in 1..Len(DataRows(file)) :
            \A c \in 1..Len(column_list) :
                \/ InDomain(column_types[column_list[c]], DataRows(file)[j][c])
                \/ /\ GivenConditionValue(column_list[c])
                   /\ DataRows(file)[j][c] = Text(condition_values[column_list[c]])

C7_Witness ==
    /\ pc = "done"
    /\ Len(DataRows(main_file)) = 2
    /\ Len(DataRows(correct_file)) = 1
    /\ column_types[column_list[1]] = "INT"
    /\ DataRows(main_file)[1][1] = <<"x">>
    /\ DataRows(main_file)[2][1] = IntToStr(-100)

-----------------------------------------------------------------------------
(* The claims about main, under SpecBuilder, SpecPath and SpecKV *)

\* C6: a run that ends in a validation error has created or changed neither
\* output file.
C6_ErrorBeforeFiles ==
    pc = "error" => ~main_file.exists /\ ~correct_file.exists

C6_Witness ==
    /\ pc = "error"
    /\ error = "Unknown column"
    /\ Len(column_list) = 3
    /\ ~main_file.exists
    /\ ~correct_file.exists

\* The extension of a path without its leading dot
ExtensionNoDot(p) == IF PathSuffix(p) = <<>> THEN <<>> ELSE Tail(PathSuffix(p))

\* C8: without out_file_correct the correct rows go to <stem>_correct.<ext>
\* in the directory of out_file, <ext> being the extension without its dot.
C8_DefaultCorrectPath ==
    (pc = "open" /\ args.out_file_correct = None) =>
        out_file_correct =
            PathJoin(PathParent(Path(args.out_file)),
                     PathStem(Path(args.out_file)) \o S_correct
                         \o ExtensionNoDot(Path(args.out_file)))

\* C9: read_key_value splits a token once, at the first delimiter: the key
\* is the trimmed text before it and the value the trimmed text after it,
\* and no token is rejected for holding the delimiter more than once.
C9_SplitsOnceAtFirst ==
    (pc = "returned" /\ Contains(kv_call.encoded, kv_call.delimiter)) =>
        LET j == Find(kv_call.encoded, kv_call.delimiter)
        IN  kv_result = Some([raised |-> FALSE,
                              key    |-> Strip(SubSeq(kv_call.encoded, 1, j - 1)),
                              value  |-> Some(Strip(SubSeq(kv_call.encoded, j + 1,
                                                           Len(kv_call.encoded))))])

\* The names the tokens of the columns argument declare, in their order
ExplicitNames ==
    IF args.columns = None THEN <<>>
    ELSE LET declared == Split(args.columns[1], ",")
         IN  [j \in 1..Len(declared) |-> ReadKeyValue(declared[j], ":", Some(S_any)).key]

Underscores(k) == [j \in 1..k |-> "_"]

NamesBefore(j) == {column_list[m] : m \in 1..(j - 1)}

\* The schema of a run that was given n_columns, once it is built
C10_Schema ==
    (args.n_columns # None /\ pc \notin {"main", "columns", "n_columns", "for", "while", "error"})
    => /\ Len(column_list) = args.n_columns[1]
       /\ \A j, m \in 1..Len(column_list) : j # m => column_list[j] # column_list[m]
       /\ \A j \in 1..Len(column_list) : column_list[j] # <<>>
       /\ Len(ExplicitNames) <= Len(column_list)
       /\ SubSeq(column_list, 1, Len(ExplicitNames)) = ExplicitNames
       /\ \A j \in (Len(ExplicitNames) + 1)..Len(column_list) :
              \E k \in 0..Len(column_list) :
                  /\ column_list[j] = S_column \o IntToStr(j - 1) \o Underscores(k)
                  /\ column_list[j] \notin NamesBefore(j)
                  /\ \A m \in 0..(k - 1) :
                         S_column \o IntToStr(j - 1) \o Underscores(m) \in NamesBefore(j)

\* C10: given n_columns at least the number of explicit columns, the schema
\* has exactly n_columns columns with distinct non-empty names, the explicit
\* ones first in their order, then column_i for each further index i with
\* the fewest underscores appended that make it new; and every run of the
\* underscore-appending loop ends.
C10_SynthesizedColumns ==
    /\ [](C10_Schema)
    /\ (pc = "while") ~> (pc = "for")

C10_Witness ==
    /\ pc = "loop"
    /\ args.n_columns = Some(3)
    /\ column_list = <<S_column \o <<"2">>, S_column \o <<"2", "_">>,
                       S_column \o <<"2", "_", "_">>>>

====
